---- MODULE Spec2Model ----
(***************************************************************************)
(* Highest-label push-relabel maximum flow with the gap relabeling         *)
(* heuristic: struct PushRelabel of src/unnamed/part_000 (lines 595-704).  *)
(*                                                                         *)
(* Nodes are 0 .. n-1 as in the source.  adj[v] is a TLA+ sequence, so the *)
(* C++ slot k of adj[v] is adj[v][k + 1]; Edge.index keeps the 0-based     *)
(* value the source stores.                                                *)
(***************************************************************************)
EXTENDS Integers, Sequences, FiniteSets, TLC

\* ---- bounds of the model ------------------------------------------------
MaxN == 3
MaxEdges == 2
MaxCap == 2
MaxCalls == 2

VARIABLES n, adj, excess, dist, count, active, B, b, pc, s, t, v, i, ret

vars == <<n, adj, excess, dist, count, active, B, b, pc, s, t, v, i, ret>>

Nodes == 0 .. (n - 1)

Min(x, y) == IF x <= y THEN x ELSE y

Max(x, y) == IF x >= y THEN x ELSE y

\* template <class T> struct Edge { int from, to, index; T cap, flow; }
Edge(from, to, cap, flow, index) ==
    [from |-> from, to |-> to, cap |-> cap, flow |-> flow, index |-> index]

\* The engine's mutable members, passed through the member functions.
Engine ==
    [adj |-> adj, excess |-> excess, dist |-> dist, count |-> count,
     active |-> active, B |-> B, b |-> b]

\* adj[e.to][e.index]
Twin(a, e) == a[e.to][e.index + 1]

\* AddEdge without the index++ of the self-loop case.
AddEdgeAdjNoSkip(a, from, to, cap) ==
    LET fwd == Edge(from, to, cap, 0, Len(a[to]))
        a1  == [a EXCEPT ![from] = Append(@, fwd)]
        bwd == Edge(to, from, 0, 0, Len(a1[from]) - 1)
    IN  [a1 EXCEPT ![to] = Append(@, bwd)]

\* void AddEdge (int from, int to, int cap)
AddEdgeAdj(a, from, to, cap) ==
    LET fwd0 == Edge(from, to, cap, 0, Len(a[to]))
        fwd  == IF from = to THEN [fwd0 EXCEPT !.index = @ + 1] ELSE fwd0
        a1   == [a EXCEPT ![from] = Append(@, fwd)]
        bwd  == Edge(to, from, 0, 0, Len(a1[from]) - 1)
    IN  [a1 EXCEPT ![to] = Append(@, bwd)]

\* Enqueue that forgets the test of active[v].
EnqueueAgain(E, w) ==
    IF E.excess[w] > 0 /\ E.dist[w] < n
    THEN [E EXCEPT !.active[w] = TRUE,
                   !.B[E.dist[w]] = Append(@, w),
                   !.b = Max(E.b, E.dist[w])]
    ELSE E

\* Enqueue that forgets b = max(b, dist[v]).
EnqueueNoMax(E, w) ==
    IF ~E.active[w] /\ E.excess[w] > 0 /\ E.dist[w] < n
    THEN [E EXCEPT !.active[w] = TRUE,
                   !.B[E.dist[w]] = Append(@, w)]
    ELSE E

\* void Enqueue (int v)
Enqueue(E, w) ==
    IF ~E.active[w] /\ E.excess[w] > 0 /\ E.dist[w] < n
    THEN [E EXCEPT !.active[w] = TRUE,
                   !.B[E.dist[w]] = Append(@, w),
                   !.b = Max(E.b, E.dist[w])]
    ELSE E

\* Push that forgets the final Enqueue(e.to).
PushNoEnqueue(E, u, k) ==
    LET e   == E.adj[u][k + 1]
        amt == Min(E.excess[e.from], e.cap - e.flow)
    IN  IF E.dist[e.from] = E.dist[e.to] + 1 /\ amt > 0
        THEN LET a1 == [E.adj EXCEPT ![u][k + 1].flow = @ + amt]
                 a2 == [a1 EXCEPT ![e.to][e.index + 1].flow = @ - amt]
                 x1 == [E.excess EXCEPT ![e.to] = @ + amt]
                 x2 == [x1 EXCEPT ![e.from] = @ - amt]
             IN  [E EXCEPT !.adj = a2, !.excess = x2]
        ELSE E

\* Push that forgets excess[e.from] -= amt.
PushNoDrain(E, u, k) ==
    LET e   == E.adj[u][k + 1]
        amt == Min(E.excess[e.from], e.cap - e.flow)
    IN  IF E.dist[e.from] = E.dist[e.to] + 1 /\ amt > 0
        THEN LET a1 == [E.adj EXCEPT ![u][k + 1].flow = @ + amt]
                 a2 == [a1 EXCEPT ![e.to][e.index + 1].flow = @ - amt]
                 x1 == [E.excess EXCEPT ![e.to] = @ + amt]
             IN  Enqueue([E EXCEPT !.adj = a2, !.excess = x1], e.to)
        ELSE E

\* Push that forgets adj[e.to][e.index].flow -= amt.
PushNoTwin(E, u, k) ==
    LET e   == E.adj[u][k + 1]
        amt == Min(E.excess[e.from], e.cap - e.flow)
    IN  IF E.dist[e.from] = E.dist[e.to] + 1 /\ amt > 0
        THEN LET a1 == [E.adj EXCEPT ![u][k + 1].flow = @ + amt]
                 x1 == [E.excess EXCEPT ![e.to] = @ + amt]
                 x2 == [x1 EXCEPT ![e.from] = @ - amt]
             IN  Enqueue([E EXCEPT !.adj = a1, !.excess = x2], e.to)
        ELSE E

\* Push that moves the whole excess, whatever the residual capacity.
PushOver(E, u, k) ==
    LET e   == E.adj[u][k + 1]
        amt == E.excess[e.from]
    IN  IF E.dist[e.from] = E.dist[e.to] + 1 /\ amt > 0
        THEN LET a1 == [E.adj EXCEPT ![u][k + 1].flow = @ + amt]
                 a2 == [a1 EXCEPT ![e.to][e.index + 1].flow = @ - amt]
                 x1 == [E.excess EXCEPT ![e.to] = @ + amt]
                 x2 == [x1 EXCEPT ![e.from] = @ - amt]
             IN  Enqueue([E EXCEPT !.adj = a2, !.excess = x2], e.to)
        ELSE E

\* void Push (Edge <T> &e), e being slot k of adj[u]
Push(E, u, k) ==
    LET e   == E.adj[u][k + 1]
        amt == Min(E.excess[e.from], e.cap - e.flow)
    IN  IF E.dist[e.from] = E.dist[e.to] + 1 /\ amt > 0
        THEN LET a1 == [E.adj EXCEPT ![u][k + 1].flow = @ + amt]
                 a2 == [a1 EXCEPT ![e.to][e.index + 1].flow = @ - amt]
                 x1 == [E.excess EXCEPT ![e.to] = @ + amt]
                 x2 == [x1 EXCEPT ![e.from] = @ - amt]
             IN  Enqueue([E EXCEPT !.adj = a2, !.excess = x2], e.to)
        ELSE E

\* The loop body of Gap with dist[v] >= k - 1 as its test.
GapNodeBelow(E, k, w) ==
    IF E.dist[w] >= k - 1
    THEN LET c1 == [E.count EXCEPT ![E.dist[w]] = @ - 1]
             d1 == [E.dist EXCEPT ![w] = Max(@, n)]
             c2 == [c1 EXCEPT ![d1[w]] = @ + 1]
         IN  Enqueue([E EXCEPT !.count = c2, !.dist = d1], w)
    ELSE E

\* The loop body of Gap without count[dist[v]]-- before the lift.
GapNodeNoDec(E, k, w) ==
    IF E.dist[w] >= k
    THEN LET d1 == [E.dist EXCEPT ![w] = Max(@, n)]
             c2 == [E.count EXCEPT ![d1[w]] = @ + 1]
         IN  Enqueue([E EXCEPT !.count = c2, !.dist = d1], w)
    ELSE E

\* One iteration of the loop of Gap, for node w.
GapNode(E, k, w) ==
    IF E.dist[w] >= k
    THEN LET c1 == [E.count EXCEPT ![E.dist[w]] = @ - 1]
             d1 == [E.dist EXCEPT ![w] = Max(@, n)]
             c2 == [c1 EXCEPT ![d1[w]] = @ + 1]
         IN  Enqueue([E EXCEPT !.count = c2, !.dist = d1], w)
    ELSE E

RECURSIVE GapFrom(_, _, _)
\* for (int v = w; v < n; v++) of Gap
GapFrom(E, k, w) ==
    IF w >= n THEN E ELSE GapFrom(GapNode(E, k, w), k, w + 1)

\* void Gap (int k)
Gap(E, k) == GapFrom(E, k, 0)

RECURSIVE RelabelDistNoInc(_, _, _, _)
\* The loop of Relabel with dist[e.to] in place of dist[e.to] + 1.
RelabelDistNoInc(E, w, k, d) ==
    IF k >= Len(E.adj[w]) THEN d
    ELSE LET e == E.adj[w][k + 1]
         IN  RelabelDistNoInc(E, w, k + 1,
                 IF e.cap - e.flow > 0
                 THEN Min(d, IF e.to = w THEN d ELSE E.dist[e.to])
                 ELSE d)

RECURSIVE RelabelDist(_, _, _, _)
\* The loop of Relabel over the arcs of adj[w] from slot k on; d is dist[w].
RelabelDist(E, w, k, d) ==
    IF k >= Len(E.adj[w]) THEN d
    ELSE LET e == E.adj[w][k + 1]
         IN  RelabelDist(E, w, k + 1,
                 IF e.cap - e.flow > 0
                 THEN Min(d, (IF e.to = w THEN d ELSE E.dist[e.to]) + 1)
                 ELSE d)

\* void Relabel (int v)
Relabel(E, w) ==
    LET c1 == [E.count EXCEPT ![E.dist[w]] = @ - 1]
        d  == RelabelDist(E, w, 0, n)
        d1 == [E.dist EXCEPT ![w] = d]
        c2 == [c1 EXCEPT ![d] = @ + 1]
    IN  Enqueue([E EXCEPT !.count = c2, !.dist = d1], w)

RECURSIVE SumCap(_, _)
\* for (auto &e: adj[s]) excess[s] += e.cap, over the first k arcs
SumCap(es, k) == IF k = 0 THEN 0 ELSE SumCap(es, k - 1) + es[k].cap

\* The first statements of GetMaxFlow, up to the main loop.
InitFlow(a, src, snk) ==
    LET E0 == [adj |-> a,
               excess |-> [w \in Nodes |-> IF w = src THEN SumCap(a[src], Len(a[src])) ELSE 0],
               dist |-> [w \in Nodes |-> 0],
               count |-> [k \in 0 .. n |-> IF k = 0 THEN n ELSE 0],
               active |-> [w \in Nodes |-> FALSE],
               B |-> [k \in Nodes |-> <<>>],
               b |-> 0]
        E1 == Enqueue(E0, src)
    IN  [E1 EXCEPT !.active[snk] = TRUE]

RECURSIVE NumArcs(_, _)
NumArcs(a, k) == IF k = 0 THEN 0 ELSE NumArcs(a, k - 1) + Len(a[k - 1])

\* ---- the state machine ----------------------------------------------------

Set(E) ==
    /\ adj' = E.adj
    /\ excess' = E.excess
    /\ dist' = E.dist
    /\ count' = E.count
    /\ active' = E.active
    /\ B' = E.B
    /\ b' = E.b

\* PushRelabel (int n): n(n), adj(n) {}  -- the other vectors start empty
Init ==
    /\ n \in 2 .. MaxN
    /\ adj = [w \in Nodes |-> <<>>]
    /\ excess = <<>>
    /\ dist = <<>>
    /\ count = <<>>
    /\ active = <<>>
    /\ B = <<>>
    /\ b = 0
    /\ pc = "build"
    /\ s = 0
    /\ t = 0
    /\ v = 0
    /\ i = 0
    /\ ret = <<>>

\* AddEdge(from, to, cap), called before the computation only.  The caller's
\* capacity is drawn from 1 .. MaxCap; capacity 0 is what every backward arc
\* has.
AddEdge ==
    /\ pc = "build"
    /\ NumArcs(adj, n) < 2 * MaxEdges
    /\ \E from \in Nodes, to \in Nodes, cap \in 1 .. MaxCap :
          adj' = AddEdgeAdj(adj, from, to, cap)
    /\ UNCHANGED <<n, excess, dist, count, active, B, b, pc, s, t, v, i, ret>>

\* Entry of GetMaxFlow(s, t), on a fresh network or again on the same object.
\* AddEdge builds every network over the nodes, and no member function
\* depends on the numbering of the nodes (Gap visits them in index order but
\* its iterations commute), so the pair is taken as (0, n - 1): any other
\* pair is this one in a renumbered network.
GetMaxFlow ==
    /\ pc \in {"build", "done"}
    /\ Len(ret) < MaxCalls
    /\ \E src \in {0}, snk \in {n - 1} :
          /\ src # snk
          /\ s' = src
          /\ t' = snk
          /\ Set(InitFlow(adj, src, snk))
    /\ pc' = "loop"
    /\ v' = 0
    /\ i' = 0
    /\ UNCHANGED <<n, ret>>

\* while (b >= 0) with B[b] non-empty: pop a node and enter Discharge
Pop ==
    /\ pc = "loop"
    /\ b >= 0
    /\ B[b] # <<>>
    /\ LET w == B[b][Len(B[b])]
       IN  /\ v' = w
           /\ B' = [B EXCEPT ![b] = SubSeq(@, 1, Len(@) - 1)]
           /\ active' = [active EXCEPT ![w] = FALSE]
    /\ i' = 0
    /\ pc' = "discharge"
    /\ UNCHANGED <<n, adj, excess, dist, count, b, s, t, ret>>

\* while (b >= 0) with B[b] empty: b--
DecB ==
    /\ pc = "loop"
    /\ b >= 0
    /\ B[b] = <<>>
    /\ b' = b - 1
    /\ UNCHANGED <<n, adj, excess, dist, count, active, B, pc, s, t, v, i, ret>>

\* return excess[t]
Return ==
    /\ pc = "loop"
    /\ b < 0
    /\ ret' = Append(ret, excess[t])
    /\ pc' = "done"
    /\ UNCHANGED <<n, adj, excess, dist, count, active, B, b, s, t, v, i>>

\* Discharge: one iteration of the arc loop with excess[v] > 0
PushStep ==
    /\ pc = "discharge"
    /\ i < Len(adj[v])
    /\ excess[v] > 0
    /\ Set(Push(Engine, v, i))
    /\ i' = i + 1
    /\ UNCHANGED <<n, pc, s, t, v, ret>>

\* Discharge: excess[v] > 0 is false, at the break or after the loop
DischargeEnd ==
    /\ pc = "discharge"
    /\ ~(excess[v] > 0)
    /\ pc' = "loop"
    /\ UNCHANGED <<n, adj, excess, dist, count, active, B, b, s, t, v, i, ret>>

\* Discharge: the arcs are exhausted, excess remains, v is alone on its label
GapStep ==
    /\ pc = "discharge"
    /\ i >= Len(adj[v])
    /\ excess[v] > 0
    /\ count[dist[v]] = 1
    /\ Set(Gap(Engine, dist[v]))
    /\ pc' = "loop"
    /\ UNCHANGED <<n, s, t, v, i, ret>>

\* Discharge: the arcs are exhausted, excess remains, v shares its label
RelabelStep ==
    /\ pc = "discharge"
    /\ i >= Len(adj[v])
    /\ excess[v] > 0
    /\ count[dist[v]] # 1
    /\ Set(Relabel(Engine, v))
    /\ pc' = "loop"
    /\ UNCHANGED <<n, s, t, v, i, ret>>

Next ==
    \/ AddEdge
    \/ GetMaxFlow
    \/ Pop
    \/ DecB
    \/ Return
    \/ PushStep
    \/ DischargeEnd
    \/ GapStep
    \/ RelabelStep

Spec == Init /\ [][Next]_vars

\* ---- properties -----------------------------------------------------------

\* P holds of every stored arc: slot k (1-based) of adj[u], for every node u.
AllArcs(P(_, _)) == \A u \in Nodes : \A k \in 1 .. Len(adj[u]) : P(u, k)

SomeArc(P(_, _)) == \E u \in Nodes : \E k \in 1 .. Len(adj[u]) : P(u, k)

TwinOk(u, k) ==
    LET e == adj[u][k]
    IN  /\ e.from = u
        /\ e.to \in Nodes
        /\ e.index + 1 \in 1 .. Len(adj[e.to])
        /\ ~(e.to = u /\ e.index + 1 = k)
        /\ Twin(adj, e).from = e.to
        /\ Twin(adj, e).to = e.from
        /\ Twin(adj, e).index + 1 = k
        /\ e.cap >= 0
        /\ (e.cap = 0 \/ Twin(adj, e).cap = 0)

\* C8: after any sequence of AddEdge calls every arc of adj[u] starts at u and
\* has a twin in another slot, which runs the other way and points back to
\* the arc's own slot; of the two arcs of a pair one has capacity 0, and the
\* stored arcs are two per inserted edge.
TwinStructure ==
    pc = "build" => AllArcs(TwinOk) /\ NumArcs(adj, n) % 2 = 0

SelfLoopThenEdge(u, k) ==
    adj[u][k].to = u /\ adj[u][k].cap > 0 /\ Len(adj[u]) >= k + 3

\* A self-loop with positive capacity followed by another edge at its node.
TwinStructureWitness == pc = "build" /\ SomeArc(SelfLoopThenEdge)

FlowMirrored(u, k) == Twin(adj, adj[u][k]).flow = - adj[u][k].flow

\* C5: in every state during and after GetMaxFlow, flow(twin(e)) = -flow(e)
\* for every arc e.
TwinSymmetry == AllArcs(FlowMirrored)

FlowAbove1(u, k) == adj[u][k].flow > 1

\* A push has put flow on an arc and the discharge is still under way.
TwinSymmetryWitness == pc = "discharge" /\ SomeArc(FlowAbove1)

\* An arc is a forward arc when its twin has capacity 0.
WithinResidual(u, k) ==
    LET e == adj[u][k]
    IN  /\ e.flow <= e.cap
        /\ Twin(adj, e).cap = 0 => e.flow >= 0

\* C9: in every state during GetMaxFlow every forward arc has
\* 0 <= flow <= capacity and every arc has flow <= capacity.
ResidualNonNegative ==
    pc \in {"loop", "discharge"} => AllArcs(WithinResidual)

PartlyFilled(u, k) == adj[u][k].cap = 2 /\ adj[u][k].flow = 1

Saturated(u, k) == adj[u][k].cap > 0 /\ adj[u][k].flow = adj[u][k].cap

\* During a run: one forward arc is saturated, another partly filled.
ResidualNonNegativeWitness ==
    pc = "discharge" /\ SomeArc(PartlyFilled) /\ SomeArc(Saturated)

WithinZeroAndCap(u, k) == 0 <= adj[u][k].flow /\ adj[u][k].flow <= adj[u][k].cap

\* C4 as stated: after GetMaxFlow returns every stored arc has
\* 0 <= flow <= capacity.
CapacityRespectAllArcs == pc = "done" => AllArcs(WithinZeroAndCap)

WithinTwinAndCap(u, k) ==
    LET e == adj[u][k]
    IN  - Twin(adj, e).cap <= e.flow /\ e.flow <= e.cap

\* C4 amended: after GetMaxFlow returns every stored arc has
\* -capacity(twin) <= flow <= capacity, which is 0 <= flow <= capacity on a
\* forward arc and -capacity(forward) <= flow <= 0 on a backward arc.
CapacityRespect == pc = "done" => AllArcs(WithinTwinAndCap)

BackwardUsed(u, k) == adj[u][k].cap = 0 /\ adj[u][k].flow < 0

\* GetMaxFlow has returned leaving a backward arc with negative flow.
CapacityRespectWitness == pc = "done" /\ SomeArc(BackwardUsed)

RECURSIVE SumFlow(_, _)
\* The sum of the flow fields of the first k arcs of es: for es = adj[w] and
\* k = Len(es), the flow leaving w minus the flow entering w.
SumFlow(es, k) == IF k = 0 THEN 0 ELSE SumFlow(es, k - 1) + es[k].flow

NetOut(w) == SumFlow(adj[w], Len(adj[w]))

RECURSIVE CutOut(_, _, _)
\* The capacity of those of the first k arcs of adj[u] that leave the set S.
CutOut(S, u, k) ==
    IF k = 0 THEN 0
    ELSE CutOut(S, u, k - 1) + (IF adj[u][k].to \in S THEN 0 ELSE adj[u][k].cap)

RECURSIVE CutCap(_, _)
\* The capacity of the arcs that lead from S to its complement, summed over
\* the nodes of S below top.
CutCap(S, top) ==
    IF top = 0 THEN 0
    ELSE CutCap(S, top - 1)
           + (IF (top - 1) \in S THEN CutOut(S, top - 1, Len(adj[top - 1])) ELSE 0)

\* The capacity of a minimum cut separating src from snk.
MinCut(src, snk) ==
    LET caps == {CutCap(S \cup {src}, n) : S \in SUBSET (Nodes \ {src, snk})}
    IN  CHOOSE c \in caps : \A d \in caps : c <= d

Inner == Nodes \ {s, t}

RECURSIVE SumExcess(_)
\* The excess parked at the inner nodes below top.
SumExcess(top) ==
    IF top = 0 THEN 0
    ELSE SumExcess(top - 1) + (IF (top - 1) \in Inner THEN excess[top - 1] ELSE 0)

FirstReturn == pc = "done" /\ Len(ret) = 1

\* C1: the first call GetMaxFlow(source, sink) on a network returns the
\* capacity of a minimum cut separating source from sink.
MaxFlowIsMinCut == FirstReturn => ret[1] = MinCut(s, t)

\* The first call has returned a positive value below the source's capacity.
MaxFlowIsMinCutWitness ==
    /\ FirstReturn
    /\ ret[1] > 0
    /\ ret[1] < SumCap(adj[s], Len(adj[s]))

\* C2 as stated: after the first GetMaxFlow returns every node other than
\* the source and the sink has excess zero and its inflow equals its outflow.
Conservation ==
    FirstReturn => \A w \in Inner : excess[w] = 0 /\ NetOut(w) = 0

\* C2 amended: after the first GetMaxFlow returns every node other than the
\* source and the sink has an excess >= 0 that is its inflow minus its
\* outflow, and the excess is zero at every such node whose label is below n.
PreflowAtReturn ==
    FirstReturn =>
        \A w \in Inner :
            /\ excess[w] >= 0
            /\ excess[w] = - NetOut(w)
            /\ dist[w] < n => excess[w] = 0

\* The first call has returned leaving excess at an inner node of label n.
PreflowAtReturnWitness ==
    FirstReturn /\ \E w \in Inner : excess[w] > 0 /\ dist[w] = n

\* C3 as stated: the value returned equals excess[sink] and the net flow out
\* of the source over the final arc flows.
ValueIsSourceNetFlow ==
    FirstReturn => ret[1] = excess[t] /\ ret[1] = NetOut(s)

\* C3 amended: the value returned equals excess[sink] and the net flow into
\* the sink over the final arc flows; the net flow out of the source is that
\* value plus the excess left at the other nodes.
ValueIsSinkNetFlow ==
    FirstReturn =>
        /\ ret[1] = excess[t]
        /\ ret[1] = - NetOut(t)
        /\ NetOut(s) = ret[1] + SumExcess(n)

\* The first call has returned and more flow left the source than it
\* returned.
ValueIsSinkNetFlowWitness == FirstReturn /\ NetOut(s) > ret[1]

\* C6: two calls in a row of GetMaxFlow on the same object, network and
\* (source, sink) return the same value.
RerunSameValue == Len(ret) >= 2 => ret[2] = ret[1]

RECURSIVE LabelRoom(_)
\* The room the labels of the nodes below top have under n.
LabelRoom(top) == IF top = 0 THEN 0 ELSE LabelRoom(top - 1) + (n - dist[top - 1])

RECURSIVE ExcessHeight(_)
\* The excess of the nodes below top, weighted by their labels.
ExcessHeight(top) ==
    IF top = 0 THEN 0
    ELSE ExcessHeight(top - 1) + excess[top - 1] * dist[top - 1]

RECURSIVE Queued(_)
\* The number of entries of the buckets below top.
Queued(top) == IF top = 0 THEN 0 ELSE Queued(top - 1) + Len(B[top - 1])

\* The bucket indices and bucket entries still to drain.
Drain == (b + 1) + Queued(n)

\* The position inside Discharge, then the loop test, then the return.
Position ==
    CASE pc = "discharge" -> 2 + Len(adj[v]) - i
      [] pc = "loop" -> 1
      [] OTHER -> 0

\* The tuple ordered lexicographically that measures what is left of a run.
Measure == <<LabelRoom(n), ExcessHeight(n), Drain, Position>>

\* y is below x in the lexicographic order and made of natural numbers.
Below(x, y) ==
    /\ y[1] >= 0 /\ y[2] >= 0 /\ y[3] >= 0 /\ y[4] >= 0
    /\ \/ y[1] < x[1]
       \/ y[1] = x[1] /\ y[2] < x[2]
       \/ y[1] = x[1] /\ y[2] = x[2] /\ y[3] < x[3]
       \/ y[1] = x[1] /\ y[2] = x[2] /\ y[3] = x[3] /\ y[4] < x[4]

\* A step lowers the measure.
Lowers == \E x \in {Measure} : \E y \in {Measure'} : Below(x, y)

\* C7: the bucket-draining loop of GetMaxFlow ends after finitely many push,
\* relabel and gap steps: every step of a running call (one is always
\* possible until the call returns) lowers a tuple of natural numbers in the
\* lexicographic order, which cannot go on forever.
Terminates == [][(pc = "loop" \/ pc = "discharge") => Lowers]_vars

FlowPositive(u, k) == adj[u][k].flow > 0

\* A call has returned a positive value after pushes, relabels and a gap.
TerminatesWitness ==
    /\ pc = "done"
    /\ ret[Len(ret)] > 0
    /\ SomeArc(FlowPositive)
    /\ \E w \in Nodes : dist[w] = n /\ excess[w] > 0

\* C10: a call of GetMaxFlow starts with every label 0; during the run no
\* step lowers a label or raises it above n, and a Relabel invoked by
\* Discharge strictly raises the label of its node.
LabelStep ==
    /\ GetMaxFlow => \A w \in Nodes : dist'[w] = 0
    /\ pc \in {"loop", "discharge"} =>
          \A w \in Nodes : dist[w] <= dist'[w] /\ dist'[w] <= n
    /\ RelabelStep => dist[v] < dist'[v]

LabelMonotone == [][LabelStep]_vars

\* Relabels have raised a label to 2 or more and a gap is about to lift the
\* node under discharge.
LabelMonotoneWitness ==
    /\ pc = "discharge"
    /\ i >= Len(adj[v])
    /\ excess[v] > 0
    /\ count[dist[v]] = 1
    /\ \E w \in Nodes : 1 < dist[w] /\ dist[w] < n

\* The number of nodes whose label is k.
Holders(k) == Cardinality({w \in Nodes : dist[w] = k})

RECURSIVE CountSum(_)
\* count[0] + ... + count[top]
CountSum(top) == IF top < 0 THEN 0 ELSE CountSum(top - 1) + count[top]

\* From the start of the first call on, count[k] is the number of nodes v
\* with dist[v] = k for every label k in 0 .. n, and the counts sum to n.
CountsMatch ==
    pc # "build" =>
        /\ \A k \in 0 .. n : count[k] = Holders(k)
        /\ CountSum(n) = n

\* C11: the initialization of GetMaxFlow and each completed Push, Relabel or
\* Gap (every step of the program) ends in a state between node operations
\* where count[k] is the number of nodes v with dist[v] = k for every label
\* k in 0 .. n, and the counts sum to n.
HistogramExact == [][CountsMatch']_vars

\* A relabel has moved a node to a label of its own and a gap has then lifted
\* two nodes to n.
HistogramExactWitness ==
    /\ pc = "loop"
    /\ count[n] >= 2
    /\ count[0] = 1
    /\ \E w \in Nodes : excess[w] > 0 /\ dist[w] = n

\* The bucket entries: <<d, k>> is position k of B[d].
Entries == {e \in Nodes \X (1 .. n) : e[2] <= Len(B[e[1]])}

\* The entry at position k of bucket d is as Enqueue left it: a node other
\* than the sink that is flagged active, has label d < n, d <= b and positive
\* excess, and is stored nowhere else.
EntryOk(d, k) ==
    \E w \in {B[d][k]} :
        /\ w \in Nodes \ {t}
        /\ active[w]
        /\ dist[w] = d
        /\ d < n
        /\ d <= b
        /\ excess[w] > 0
        /\ \A d2 \in Nodes : \A k2 \in 1 .. Len(B[d2]) :
               B[d2][k2] = w => d2 = d /\ k2 = k

\* In the main loop each node other than the sink has active[v] true iff it
\* occurs in some bucket; it occurs in at most one bucket and at most once;
\* every node stored in B[d] has dist[v] = d < n, d <= b and excess[v] > 0;
\* the sink is never stored nor discharged.
BucketsMatch ==
    (pc = "loop" \/ pc = "discharge") =>
        /\ \A d \in Nodes : \A k \in 1 .. Len(B[d]) : EntryOk(d, k)
        /\ \A w \in Nodes \ {t} :
               active[w] => \E d \in Nodes : \E k \in 1 .. Len(B[d]) : B[d][k] = w
        /\ pc = "discharge" => v # t

\* C12: every step ends in a state where, if it is a state of the main
\* loop, each node other than the sink has active[v] true iff it occurs in
\* some bucket, it occurs in at most one bucket and at most once, and every
\* node stored in B[d] has dist[v] = d < n, d <= b and excess[v] > 0; the
\* sink is never stored in a bucket nor discharged.
BucketsConsistent == [][BucketsMatch']_vars

\* A relabeled node other than the source is under discharge, and its push
\* back to the source has put the source in a bucket again.
BucketsConsistentWitness ==
    /\ pc = "discharge"
    /\ v # s
    /\ dist[v] >= 1
    /\ \E e \in Entries : B[e[1]][e[2]] = s

\* Node u has an arc of positive residual capacity into the set R.
StepsInto(u, R) ==
    \E k \in 1 .. Len(adj[u]) :
        adj[u][k].cap - adj[u][k].flow > 0 /\ adj[u][k].to \in R

\* R and the nodes outside it one residual arc away from it.
OneArcFrom(R) == R \cup {u \in Nodes \ R : StepsInto(u, R)}

RECURSIVE Within(_)
\* The nodes with a path of at most k arcs of positive residual capacity to
\* the sink.
Within(k) == IF k = 0 THEN {t} ELSE OneArcFrom(Within(k - 1))

RECURSIVE SoundFrom(_, _)
\* R being the nodes within k residual arcs of the sink: no node within k,
\* k + 1, ..., n - 1 arcs has a label above that number. Once a further arc
\* adds no node, the later sets are R again and their bounds are larger.
SoundFrom(R, k) ==
    /\ \A u \in R : dist[u] <= k
    /\ k < n - 1 => \E R1 \in {OneArcFrom(R)} : R1 # R => SoundFrom(R1, k + 1)

\* From the start of the first call on, dist[v] is at most the number of
\* arcs of any path from v to the sink over arcs of positive residual
\* capacity.
LabelsBelowPaths == pc # "build" => SoundFrom({t}, 0)

\* C13: every node operation of GetMaxFlow (every step of the program) ends
\* in a state where dist[v] is at most the number of arcs of any path from v
\* to the sink over arcs of positive residual capacity; so a node whose label
\* is n (a path that repeats no node has at most n - 1 arcs) has no such
\* path.
LabelsSound == [][LabelsBelowPaths']_vars

\* A gap or relabel has lifted a node with excess to n, from where no
\* residual path leads to the sink, and flow has reached the sink.
LabelsSoundWitness ==
    /\ pc = "loop"
    /\ excess[t] > 0
    /\ \E u \in Nodes \ Within(n - 1) : dist[u] = n /\ excess[u] > 0

====
